---------------------------- MODULE Spec2Model ----------------------------
(***************************************************************************)
(* Reactive view-update model of the two Bokeh server applications of the  *)
(* repository:                                                             *)
(*   - the animated map app        (src/dvc_ex4.py), specification Spec    *)
(*   - the dimension-reduction explorer (src/dvc_ex3.py), spec. ExSpec     *)
(* Each handler of the scripts is one action; a handler runs to            *)
(* completion (or to the statement that raises) within its action.         *)
(* AllSpec runs either script from the moment its table has been read,     *)
(* with the top-level code of the script as actions of its own.            *)
(* LiveSpec is the map app with a fair timer, for the liveness properties. *)
(* SerialSpec is the map app with its handlers run statement by statement  *)
(* by the event loop, for the properties of handlers in flight.            *)
(***************************************************************************)
EXTENDS Integers, Sequences, FiniteSets, TLC

(***************************************************************************)
(* Bounds of the model.                                                    *)
(***************************************************************************)
\* number of rows (companies) of the base table of the map app
NRows == 2
\* number of distinct timer handle identities the event loop can hand out
MaxHandles == 2

(***************************************************************************)
(* Program constants of the map app.                                       *)
(***************************************************************************)
InitYear == 2022
FirstYear == 2019
LastYear == 2022
InitCity == "San Jose"
InitLower == 0
Years == FirstYear..LastYear

\* np.nan in a numeric column (all numeric data of the model is >= 0)
NaN == -1
\* np.nan in the object column 'Symbol'
SymNaN == "NaN"
\* the callback handle before the first start
None == 0

PlayLabel == "Play"
PauseLabel == "Pause"

VARIABLES
    \* ---- map app (dvc_ex4.py) ----
    us_company_map,     \* the base table, a sequence of rows
    year, city, market_cap_lower,
    main_df,            \* the startup main table (tap_update resolves against it)
    main_data,          \* main_plot.renderers[1].data_source.data
    sub_data,           \* subplot.renderers[0].data_source.data
    sub_title,          \* subplot.title.text
    label_text,         \* label.text
    btn_label,          \* btn.label
    callback,           \* the module-level timer handle
    timers,             \* handles of the periodic callbacks registered in curdoc()
    map_error,          \* TRUE once a handler of the map app has raised
    in_flight,          \* the handler invocations that have started and not
                        \* returned, innermost last (used by SerialSpec)
    \* ---- dimension-reduction explorer (dvc_ex3.py) ----
    df,                 \* the table with 'PCA 1', 'PCA 2', 'Cluster', 'label'
    select_col_pca_value,   \* select_col_pca.value
    sub_ft_selected,
    points_selected,    \* the lasso selection, a list of row labels (from 0)
    source_label,       \* p_pca_source.data['label']
    slot_pca,           \* layout.children[0].children[0]
    slot_sub,           \* layout.children[1].children[2]
    ex_error,           \* the exception the last failing handler raised
    ex_stage,           \* how far the top-level code of the script has run
    lasso_subs,         \* registrations of lasso_update on the indices of
                        \* p_pca_source.selected
    np_random           \* the state of numpy's global random generator

mapVars == <<us_company_map, year, city, market_cap_lower, main_df, main_data,
             sub_data, sub_title, label_text, btn_label, callback, timers,
             map_error>>

exVars == <<df, select_col_pca_value, sub_ft_selected, points_selected,
            source_label, slot_pca, slot_sub, ex_error, ex_stage, np_random,
            lasso_subs>>

vars == <<mapVars, exVars, in_flight>>

(***************************************************************************)
(* Input data of the map app.                                              *)
(***************************************************************************)
\* the city names of the data, in the lexicographic order groupby sorts by
CityOrder == <<"Austin", "Reno", "San Jose">>
Cities == {CityOrder[i] : i \in DOMAIN CityOrder}
SymbolNames == <<"AAA", "BBB", "CCC", "DDD">>

\* per-year series of one company: 'Market Cap <year>' and 'Employees <year>'
Series(a, b, c, d) == [y \in Years |-> <<a, b, c, d>>[y - FirstYear + 1]]
Histories ==
    { [cap |-> Series(50, 50, 150, 150),  emp |-> Series(10, 10, 20, 20)],
      [cap |-> Series(150, 100, 100, 50), emp |-> Series(30, 30, 0, 10)],
      [cap |-> Series(NaN, NaN, 100, 100), emp |-> Series(NaN, 5, 5, NaN)] }

\* every base table of NRows rows; x and y are the Mercator coordinates
BaseRow(i, c, h) ==
    [Symbol |-> SymbolNames[i], City |-> c, x |-> 10 * i, y |-> 7 * i,
     MarketCap |-> h.cap, Employees |-> h.emp]
BaseTables ==
    { [i \in 1..NRows |-> BaseRow(i, cs[i], hs[i])] :
        cs \in [1..NRows -> Cities], hs \in [1..NRows -> Histories] }

\* slider values delivered by the widget (start=0, step=1): a sample of them
SliderStops == {0, 50, 100, 150}

(***************************************************************************)
(* create_df and its steps.                                                *)
(***************************************************************************)
\* a faulty comparison: <= instead of <
IsBelow_inclusive(v, lower) == v # NaN /\ v <= lower

\* the comparison df['Market Cap'] < market_cap_lower: False on NaN
IsBelow(v, lower) == v # NaN /\ v < lower

\* lines 93-96: the columns of this year, renamed
SelectYear(base, yr) ==
    [i \in 1..Len(base) |->
        [Symbol |-> base[i].Symbol, City |-> base[i].City,
         x |-> base[i].x, y |-> base[i].y,
         MarketCap |-> base[i].MarketCap[yr],
         Employees |-> base[i].Employees[yr]]]

\* line 99: mask Symbol, Market Cap, Employees of the rows below the bound
MaskRow(r, lower) ==
    IF IsBelow(r.MarketCap, lower)
    THEN [r EXCEPT !.Symbol = SymNaN, !.MarketCap = NaN, !.Employees = NaN]
    ELSE r
FilterStep(base, yr, lower) ==
    [i \in 1..Len(base) |-> MaskRow(SelectYear(base, yr)[i], lower)]

\* np.log(df['Employees']) * 3.5, kept symbolic: a function of Employees alone
CircleSize(emp) == [log35 |-> emp]

RECURSIVE SumSkipNa(_)
\* pandas 'sum': NaN skipped, the sum of nothing is 0
SumSkipNa(vals) ==
    IF vals = <<>> THEN 0
    ELSE (IF Head(vals) = NaN THEN 0 ELSE Head(vals)) + SumSkipNa(Tail(vals))

\* a faulty count: 'size' instead of 'count', masked rows are counted too
CountSymbols_size(rows) == Len(rows)

RECURSIVE CountSymbols(_)
\* pandas 'count': the number of non-missing values
CountSymbols(rows) ==
    IF rows = <<>> THEN 0
    ELSE (IF Head(rows).Symbol = SymNaN THEN 0 ELSE 1) + CountSymbols(Tail(rows))

Column(rows, f) == [i \in 1..Len(rows) |-> rows[i][f]]
\* pandas 'mean' of a column without missing values, as an exact fraction
Mean(vals) == [num |-> SumSkipNa(vals), den |-> Len(vals)]

RowsOfCity(tbl, c) == SelectSeq(tbl, LAMBDA r : r.City = c)
\* faulty group keys: a city whose rows are all masked loses its group
GroupKeys_unmasked(tbl) ==
    SelectSeq(CityOrder, LAMBDA c : \E i \in 1..Len(tbl) :
                            tbl[i].City = c /\ tbl[i].Symbol # SymNaN)

\* the group keys of groupby('City'): the cities present, sorted
GroupKeys(tbl) ==
    SelectSeq(CityOrder, LAMBDA c : \E i \in 1..Len(tbl) : tbl[i].City = c)

\* lines 106-113 and 120: one row per city
AggCity(tbl, c) ==
    LET rows == RowsOfCity(tbl, c)
        emp == SumSkipNa(Column(rows, "Employees"))
    IN  [City |-> c,
         MarketCap |-> SumSkipNa(Column(rows, "MarketCap")),
         Employees |-> emp,
         x |-> Mean(Column(rows, "x")),
         y |-> Mean(Column(rows, "y")),
         Symbol |-> CountSymbols(rows),
         circle_size |-> CircleSize(emp)]
GroupAgg(tbl) ==
    LET keys == GroupKeys(tbl)
    IN  [k \in 1..Len(keys) |-> AggCity(tbl, keys[k])]

\* lines 117 and 120: the companies of the selected city
WithCircle(r) ==
    [Symbol |-> r.Symbol, City |-> r.City, x |-> r.x, y |-> r.y,
     MarketCap |-> r.MarketCap, Employees |-> r.Employees,
     circle_size |-> CircleSize(r.Employees)]
CityRows(tbl, c) ==
    LET rows == RowsOfCity(tbl, c)
    IN  [i \in 1..Len(rows) |-> WithCircle(rows[i])]

\* a create_df whose line 99 writes through to the base table
create_df_base_in_place(base, yr, lower) ==
    [i \in 1..Len(base) |->
        IF IsBelow(base[i].MarketCap[yr], lower)
        THEN [base[i] EXCEPT !.Symbol = SymNaN, !.MarketCap[yr] = NaN,
                             !.Employees[yr] = NaN]
        ELSE base[i]]

\* lines 93-99, the base table after a call of create_df: the column
\* selection of line 93 and the rename of line 95 each return a new frame,
\* so the masking assignment of line 99 writes to that frame and not to
\* us_company_map (the two calls of a handler pass the same year and bound)
create_df_base(base, yr, lower) == base

\* lines 91-122, the body of create_df over the table the global name
\* us_company_map is bound to at the time of the call
create_df_body(base, yr, c, lower, main) ==
    LET tbl == FilterStep(base, yr, lower)
    IN  IF main THEN GroupAgg(tbl) ELSE CityRows(tbl, c)

create_df(yr, c, lower, main) ==
    create_df_body(us_company_map, yr, c, lower, main)

(***************************************************************************)
(* Text of the views.                                                      *)
(***************************************************************************)
Digit(d) == <<"0", "1", "2", "3", "4", "5", "6", "7", "8", "9">>[d + 1]
RECURSIVE Str(_)
\* str(n) of a non-negative integer, as its sequence of decimal digits
Str(n) == IF n < 10 THEN <<Digit(n)>> ELSE Str(n \div 10) \o <<Digit(n % 10)>>

\* f'Tech Companies in {city} Year {year}'
TitleText(c, yr) == <<"Tech Companies in ", c, " Year ">> \o Str(yr)

(***************************************************************************)
(* State after the script has run (lines 44-401).                          *)
(***************************************************************************)
\* plot_company takes min() of the startup sub table: it must not be empty
StartsUp(base) == \E i \in 1..Len(base) : base[i].City = InitCity

\* max(us_company_map['Market Cap <year>']) as Python's max folds it
RECURSIVE PyMax(_, _)
PyMax(m, vals) ==
    IF vals = <<>> THEN m
    ELSE PyMax(IF Head(vals) # NaN /\ m # NaN /\ Head(vals) > m
               THEN Head(vals) ELSE m, Tail(vals))
markt_max ==
    LET col == [i \in 1..Len(us_company_map) |->
                    us_company_map[i].MarketCap[InitYear]]
    IN  PyMax(Head(col), Tail(col))

\* min(us_company_map['Market Cap <year>']) as Python's min folds it
RECURSIVE PyMin(_, _)
PyMin(m, vals) ==
    IF vals = <<>> THEN m
    ELSE PyMin(IF Head(vals) # NaN /\ m # NaN /\ Head(vals) < m
               THEN Head(vals) ELSE m, Tail(vals))
markt_min ==
    LET col == [i \in 1..Len(us_company_map) |->
                    us_company_map[i].MarketCap[InitYear]]
    IN  PyMin(Head(col), Tail(col))

MapInit ==
    /\ us_company_map \in {b \in BaseTables : StartsUp(b)}
    /\ year = InitYear
    /\ city = InitCity
    /\ market_cap_lower = InitLower
    /\ main_df = create_df(InitYear, InitCity, InitLower, TRUE)
    /\ main_data = create_df(InitYear, InitCity, InitLower, TRUE)
    /\ sub_data = create_df(InitYear, InitCity, InitLower, FALSE)
    /\ sub_title = TitleText(InitCity, InitYear)
    /\ label_text = Str(InitYear)
    /\ btn_label = PlayLabel
    /\ callback = None
    /\ timers = {}
    /\ map_error = FALSE
    /\ in_flight = <<>>

\* line 44 has run: the table as read_csv returns it (of its columns the
\* model keeps Symbol, City and the yearly series), nothing is built yet
Unprojected(base) ==
    [i \in 1..Len(base) |->
        [Symbol |-> base[i].Symbol, City |-> base[i].City,
         MarketCap |-> base[i].MarketCap, Employees |-> base[i].Employees]]
MapLoaded ==
    /\ us_company_map \in {Unprojected(b) : b \in {t \in BaseTables : StartsUp(t)}}
    /\ year = InitYear /\ city = InitCity /\ market_cap_lower = InitLower
    /\ main_df = <<>> /\ main_data = <<>> /\ sub_data = <<>>
    /\ sub_title = <<>> /\ label_text = <<>>
    /\ btn_label = PlayLabel /\ callback = None /\ timers = {}
    /\ map_error = FALSE /\ in_flight = <<>>

\* lines 58-60: the columns 'x' and 'y' are assigned to us_company_map itself
Mercator(base) ==
    [i \in 1..Len(base) |->
        BaseRow(i, base[i].City,
                [cap |-> base[i].MarketCap, emp |-> base[i].Employees])]

\* lines 58-404, the rest of the top-level code of the map app
MapStartup ==
    /\ us_company_map # <<>> /\ main_df = <<>>
    /\ us_company_map' = Mercator(us_company_map)
    /\ main_df' = create_df_body(us_company_map', InitYear, InitCity,
                                 InitLower, TRUE)
    /\ main_data' = main_df'
    /\ sub_data' = create_df_body(us_company_map', InitYear, InitCity,
                                  InitLower, FALSE)
    /\ sub_title' = TitleText(InitCity, InitYear)
    /\ label_text' = Str(InitYear)
    /\ UNCHANGED <<year, city, market_cap_lower, btn_label, callback, timers,
                   map_error>>
    /\ UNCHANGED <<exVars, in_flight>>

(***************************************************************************)
(* Handlers of the map app.                                                *)
(***************************************************************************)
\* selections the tap tool can report: index lists into the main source
TapSelections ==
    LET idx == 0..(Len(main_df) - 1)
    IN  {<<>>} \cup {<<i>> : i \in idx}
               \cup {<<p[1], p[2]>> : p \in {q \in idx \X idx : q[1] # q[2]}}

\* tap_update without the assignment of the subplot title
tap_update_keeps_title(new) ==
    /\ IF new # <<>>
       THEN /\ city' = main_df[new[1] + 1].City
            /\ sub_data' = create_df(year, city', market_cap_lower, FALSE)
            /\ us_company_map' =
                    create_df_base(us_company_map, year, market_cap_lower)
       ELSE UNCHANGED <<city, sub_data, us_company_map>>
    /\ UNCHANGED <<year, market_cap_lower, main_df, main_data,
                   label_text, btn_label, callback, timers, map_error,
                   sub_title>>

\* lines 297-305 (new is a Python list, indexed from 0)
tap_update(new) ==
    /\ IF new # <<>>
       THEN /\ city' = main_df[new[1] + 1].City
            /\ sub_data' = create_df(year, city', market_cap_lower, FALSE)
            /\ us_company_map' =
                    create_df_base(us_company_map, year, market_cap_lower)
            /\ sub_title' = TitleText(city', year)
       ELSE UNCHANGED <<city, sub_data, sub_title, us_company_map>>
    /\ UNCHANGED <<year, market_cap_lower, main_df, main_data,
                   label_text, btn_label, callback, timers, map_error>>

\* lines 323-330
slider_update(new) ==
    /\ market_cap_lower' = new
    /\ main_data' = create_df(year, city, new, TRUE)
    /\ sub_data' = create_df(year, city, new, FALSE)
    /\ us_company_map' = create_df_base(us_company_map, year, new)
    /\ UNCHANGED <<year, city, main_df, sub_title, label_text,
                   btn_label, callback, timers, map_error>>

\* a faulty wrap: >= instead of >, the last year is never shown
NextYear_early_wrap(yr) == IF yr + 1 >= LastYear THEN FirstYear ELSE yr + 1

\* lines 357-359
NextYear(yr) == IF yr + 1 > LastYear THEN FirstYear ELSE yr + 1

\* a faulty update_year: the data source of the subplot is not refreshed
update_year_stale_sub ==
    /\ year' = NextYear(year)
    /\ label_text' = Str(year')
    /\ sub_title' = TitleText(city, year')
    /\ main_data' = create_df(year', city, market_cap_lower, TRUE)
    /\ us_company_map' = create_df_base(us_company_map, year', market_cap_lower)
    /\ UNCHANGED <<city, market_cap_lower, main_df, sub_data,
                   btn_label, callback, timers, map_error>>

\* lines 354-368
update_year ==
    /\ year' = NextYear(year)
    /\ label_text' = Str(year')
    /\ sub_title' = TitleText(city, year')
    /\ main_data' = create_df(year', city, market_cap_lower, TRUE)
    /\ sub_data' = create_df(year', city, market_cap_lower, FALSE)
    /\ us_company_map' = create_df_base(us_company_map, year', market_cap_lower)
    /\ UNCHANGED <<city, market_cap_lower, main_df, btn_label,
                   callback, timers, map_error>>

\* curdoc().add_periodic_callback: registers a new callback object and
\* returns it; the object differs from every object still referenced
FreshHandles == (1..MaxHandles) \ (timers \cup {callback})

\* a faulty play: the start branch does not switch the label to Pause
play_no_label ==
    /\ IF btn_label = PlayLabel
       THEN /\ FreshHandles # {}
            /\ callback' = CHOOSE h \in FreshHandles :
                                \A g \in FreshHandles : h <= g
            /\ timers' = timers \cup {callback'}
            /\ UNCHANGED <<btn_label, map_error>>
       ELSE /\ btn_label' = PlayLabel
            /\ IF callback \in timers
               THEN timers' = timers \ {callback} /\ UNCHANGED map_error
               ELSE map_error' = TRUE /\ UNCHANGED timers
            /\ UNCHANGED callback
    /\ UNCHANGED <<us_company_map, year, city, market_cap_lower, main_df,
                   main_data, sub_data, sub_title, label_text>>

\* a faulty play: the stop branch does not remove the periodic callback
play_no_remove ==
    /\ IF btn_label = PlayLabel
       THEN /\ FreshHandles # {}
            /\ btn_label' = PauseLabel
            /\ callback' = CHOOSE h \in FreshHandles :
                                \A g \in FreshHandles : h <= g
            /\ timers' = timers \cup {callback'}
            /\ UNCHANGED map_error
       ELSE /\ btn_label' = PlayLabel
            /\ UNCHANGED <<callback, timers, map_error>>
    /\ UNCHANGED <<us_company_map, year, city, market_cap_lower, main_df,
                   main_data, sub_data, sub_title, label_text>>

\* a faulty play: without 'global callback' the handle is not kept
play_local_callback ==
    /\ IF btn_label = PlayLabel
       THEN /\ FreshHandles # {}
            /\ btn_label' = PauseLabel
            /\ timers' = timers \cup {CHOOSE h \in FreshHandles :
                                        \A g \in FreshHandles : h <= g}
            /\ UNCHANGED <<callback, map_error>>
       ELSE /\ btn_label' = PlayLabel
            /\ IF callback \in timers
               THEN timers' = timers \ {callback} /\ UNCHANGED map_error
               ELSE map_error' = TRUE /\ UNCHANGED timers
            /\ UNCHANGED callback
    /\ UNCHANGED <<us_company_map, year, city, market_cap_lower, main_df,
                   main_data, sub_data, sub_title, label_text>>

\* a faulty play: the start branch never registers update_year
play_never_registers ==
    /\ IF btn_label = PlayLabel
       THEN /\ btn_label' = PauseLabel
            /\ UNCHANGED <<callback, timers, map_error>>
       ELSE /\ btn_label' = PlayLabel
            /\ UNCHANGED <<callback, timers, map_error>>
    /\ UNCHANGED <<us_company_map, year, city, market_cap_lower, main_df,
                   main_data, sub_data, sub_title, label_text>>

\* a faulty play: resuming the animation restarts it from the first year
play_resets_year ==
    /\ IF btn_label = PlayLabel
       THEN /\ FreshHandles # {}
            /\ btn_label' = PauseLabel
            /\ callback' = CHOOSE h \in FreshHandles :
                                \A g \in FreshHandles : h <= g
            /\ timers' = timers \cup {callback'}
            /\ year' = FirstYear
            /\ UNCHANGED map_error
       ELSE /\ btn_label' = PlayLabel
            /\ IF callback \in timers
               THEN timers' = timers \ {callback} /\ UNCHANGED map_error
               ELSE map_error' = TRUE /\ UNCHANGED timers
            /\ UNCHANGED <<callback, year>>
    /\ UNCHANGED <<us_company_map, city, market_cap_lower, main_df,
                   main_data, sub_data, sub_title, label_text>>

\* lines 383-390
play ==
    /\ IF btn_label = PlayLabel
       THEN /\ FreshHandles # {}
            /\ btn_label' = PauseLabel
            /\ callback' = CHOOSE h \in FreshHandles :
                                \A g \in FreshHandles : h <= g
            /\ timers' = timers \cup {callback'}
            /\ UNCHANGED map_error
       ELSE /\ btn_label' = PlayLabel
            \* remove_periodic_callback raises on a callback not registered
            /\ IF callback \in timers
               THEN timers' = timers \ {callback} /\ UNCHANGED map_error
               ELSE map_error' = TRUE /\ UNCHANGED timers
            /\ UNCHANGED callback
    /\ UNCHANGED <<us_company_map, year, city, market_cap_lower, main_df,
                   main_data, sub_data, sub_title, label_text>>

\* events of the host runtime; the explorer is not loaded
\* the tap tool changes the selection of the main source
Tap ==
    /\ \E new \in TapSelections : tap_update(new)
    /\ UNCHANGED <<exVars, in_flight>>
\* the slider (start=0, end=markt_max) changes its value
Slide ==
    /\ \E new \in SliderStops :
            /\ new <= markt_max
            /\ new # market_cap_lower
            /\ slider_update(new)
    /\ UNCHANGED <<exVars, in_flight>>
\* the button is clicked
Click == play /\ UNCHANGED <<exVars, in_flight>>
\* a registered periodic callback fires
Tick ==
    /\ \E h \in timers : update_year
    /\ UNCHANGED <<exVars, in_flight>>

(***************************************************************************)
(* The handlers of the map app statement by statement, as the event loop   *)
(* of the server runs them.  The loop is one thread: it takes the next     *)
(* event (a change sent by the browser, a click, a due periodic callback)  *)
(* when the handler of the previous one has returned.  Within a handler,   *)
(* an assignment to a property of a Bokeh model calls the on_change        *)
(* callbacks registered on that property before the assignment returns.    *)
(***************************************************************************)
\* lines 307 and 332: the callbacks registered on a property of a model
OnChange(target) ==
    CASE target = "main_source.selected.indices" -> <<"tap_update">>
      [] target = "slider.value" -> <<"slider_update">>
      [] OTHER -> <<>>

\* a faulty tap_update: it clears the selection of the main source once the
\* city has been read
Body_clears_selection(h, arg) ==
    CASE h = "tap_update" ->
            IF arg # <<>>
            THEN <<"city", "main_source.selected.indices",
                   "sub_source.data", "subplot.title.text">>
            ELSE <<>>
      [] h = "slider_update" ->
            <<"market_cap_lower", "main_source.data", "sub_source.data">>
      [] h = "update_year" ->
            <<"year", "label.text", "subplot.title.text",
              "main_source.data", "sub_source.data">>
      [] h = "play" ->
            IF arg = PlayLabel
            THEN <<"btn.label", "add_periodic_callback">>
            ELSE <<"btn.label", "remove_periodic_callback">>

\* the statements a handler executes, in source order, each named by the
\* global, the model property or the document call it assigns or makes:
\* tap_update lines 298-305 (nothing for an empty selection), slider_update
\* lines 324-330, update_year lines 355-368, play lines 384-390 (arg is the
\* label the button has when play starts)
Body(h, arg) ==
    CASE h = "tap_update" ->
            IF arg # <<>>
            THEN <<"city", "sub_source.data", "subplot.title.text">>
            ELSE <<>>
      [] h = "slider_update" ->
            <<"market_cap_lower", "main_source.data", "sub_source.data">>
      [] h = "update_year" ->
            <<"year", "label.text", "subplot.title.text",
              "main_source.data", "sub_source.data">>
      [] h = "play" ->
            IF arg = PlayLabel
            THEN <<"btn.label", "add_periodic_callback">>
            ELSE <<"btn.label", "remove_periodic_callback">>

\* the invocations of the callbacks hs with the new value arg, each at its
\* first statement
Invoke(hs, arg) == [k \in 1..Len(hs) |-> [h |-> hs[k], pc |-> 1, arg |-> arg]]

\* the innermost invocation in flight executes its next statement; a
\* statement that assigns a property with on_change callbacks enters them
\* (the handlers of the script assign no such property; a selection that is
\* assigned is assigned the empty list)
Step ==
    /\ in_flight # <<>>
    /\ LET n == Len(in_flight)
           f == in_flight[n]
           body == Body(f.h, f.arg)
       IN  /\ f.pc <= Len(body)
           /\ LET s == body[f.pc]
              IN  /\ city' = IF s = "city"
                             THEN main_df[f.arg[1] + 1].City ELSE city
                  /\ market_cap_lower' = IF s = "market_cap_lower"
                                         THEN f.arg ELSE market_cap_lower
                  /\ year' = IF s = "year" THEN NextYear(year) ELSE year
                  /\ label_text' = IF s = "label.text"
                                   THEN Str(year) ELSE label_text
                  /\ sub_title' = IF s = "subplot.title.text"
                                  THEN TitleText(city, year) ELSE sub_title
                  /\ main_data' =
                        IF s = "main_source.data"
                        THEN create_df(year, city, market_cap_lower, TRUE)
                        ELSE main_data
                  /\ sub_data' =
                        IF s = "sub_source.data"
                        THEN create_df(year, city, market_cap_lower, FALSE)
                        ELSE sub_data
                  /\ us_company_map' =
                        IF s \in {"main_source.data", "sub_source.data"}
                        THEN create_df_base(us_company_map, year,
                                            market_cap_lower)
                        ELSE us_company_map
                  /\ btn_label' =
                        IF s = "btn.label"
                        THEN (IF f.arg = PlayLabel
                              THEN PauseLabel ELSE PlayLabel)
                        ELSE btn_label
                  /\ callback' =
                        IF s = "add_periodic_callback"
                        THEN CHOOSE h \in FreshHandles :
                                \A g \in FreshHandles : h <= g
                        ELSE callback
                  /\ timers' =
                        IF s = "add_periodic_callback"
                        THEN timers \cup {callback'}
                        ELSE IF s = "remove_periodic_callback"
                             THEN timers \ {callback}
                             ELSE timers
                  /\ map_error' =
                        IF s = "remove_periodic_callback"
                            /\ callback \notin timers
                        THEN TRUE ELSE map_error
                  /\ in_flight' = [in_flight EXCEPT ![n].pc = f.pc + 1]
                                    \o Invoke(OnChange(s), <<>>)
    /\ UNCHANGED <<main_df, exVars>>

\* the innermost invocation has executed its last statement and returns
Return ==
    /\ in_flight # <<>>
    /\ LET n == Len(in_flight)
           f == in_flight[n]
       IN  /\ f.pc > Len(Body(f.h, f.arg))
           /\ in_flight' = SubSeq(in_flight, 1, n - 1)
    /\ UNCHANGED <<us_company_map, year, city, market_cap_lower, main_df,
                   main_data, sub_data, sub_title, label_text, btn_label,
                   callback, timers, map_error, exVars>>

\* the events the loop takes when no handler is running
\* the tap tool has changed the selection of the main source (line 307)
TapEvent ==
    /\ in_flight = <<>>
    /\ \E new \in TapSelections :
            in_flight' = Invoke(OnChange("main_source.selected.indices"), new)
    /\ UNCHANGED <<mapVars, exVars>>
\* the slider has changed its value (line 332)
SlideEvent ==
    /\ in_flight = <<>>
    /\ \E new \in SliderStops :
            /\ new <= markt_max
            /\ new # market_cap_lower
            /\ in_flight' = Invoke(OnChange("slider.value"), new)
    /\ UNCHANGED <<mapVars, exVars>>
\* the button is clicked (line 392)
ClickEvent ==
    /\ in_flight = <<>>
    /\ btn_label = PlayLabel => FreshHandles # {}
    /\ in_flight' = Invoke(<<"play">>, btn_label)
    /\ UNCHANGED <<mapVars, exVars>>
\* a registered periodic callback is due (line 387)
TickEvent ==
    /\ in_flight = <<>>
    /\ \E h \in timers : in_flight' = Invoke(<<"update_year">>, None)
    /\ UNCHANGED <<mapVars, exVars>>

(***************************************************************************)
(* The dimension-reduction explorer (dvc_ex3.py).                          *)
(***************************************************************************)
\* number of rows of the explorer's table
ExRows == 2
\* np.histogram's default number of equal-width bins
NBins == 10

InitPcaFt == "Market Cap"
InitSubFt == "Mean Recommendation"
\* the options of the two Select widgets
PcaOptions == {"Cluster", "label", "Mean Recommendation"}
SubOptions == {"Country", "Industry", "Company"}
\* the columns pandas holds with dtype object
ObjectCols == {"Country", "Industry", "Company", "Symbol", "Recommendation",
               "Cluster"}
is_object_dtype(col) == col \in ObjectCols
is_numeric_dtype(col) == col \notin ObjectCols

CompanyNames == <<"Co1", "Co2", "Co3", "Co4">>
\* what varies between rows: the categories, the numeric feature, the
\* projection computed by pca() and the label assigned by clustering()
ExProfiles ==
    { [country |-> "CH", industry |-> "Bank", rec |-> 1, p1 |-> 0, p2 |-> 2,
       cluster |-> "0"],
      [country |-> "US", industry |-> "Tech", rec |-> 3, p1 |-> 4, p2 |-> 1,
       cluster |-> "1"],
      [country |-> "US", industry |-> "Bank", rec |-> 3, p1 |-> 5, p2 |-> 5,
       cluster |-> "1"] }
ExRow(i, pr) ==
    [c \in {"Country", "Industry", "Company", "Symbol", "Market Cap",
            "Mean Recommendation", "PCA 1", "PCA 2", "Cluster", "label"} |->
        CASE c = "Country" -> pr.country
          [] c = "Industry" -> pr.industry
          [] c = "Company" -> CompanyNames[i]
          [] c = "Symbol" -> SymbolNames[i]
          [] c = "Market Cap" -> 100 * i
          [] c = "Mean Recommendation" -> pr.rec
          [] c = "PCA 1" -> pr.p1
          [] c = "PCA 2" -> pr.p2
          [] c = "Cluster" -> pr.cluster
          \* line 429: df['label'] = df[pca_ft_selected]
          [] c = "label" -> 100 * i]
ExTables ==
    { [i \in 1..ExRows |-> ExRow(i, ps[i])] : ps \in [1..ExRows -> ExProfiles] }

\* the outcome of a call that raises
Raised(exc) == [raised |-> TRUE, exc |-> exc]
NoError == "none"

RECURSIVE SeqMin(_)
SeqMin(vals) ==
    IF Len(vals) = 1 THEN Head(vals)
    ELSE LET m == SeqMin(Tail(vals)) IN IF Head(vals) < m THEN Head(vals) ELSE m
RECURSIVE SeqMax(_)
SeqMax(vals) ==
    IF Len(vals) = 1 THEN Head(vals)
    ELSE LET m == SeqMax(Tail(vals)) IN IF Head(vals) > m THEN Head(vals) ELSE m

ExColumn(d, col) == [i \in 1..Len(d) |-> d[i][col]]

\* lines 122-161
create_cmap(d, col) ==
    IF is_object_dtype(col)
    \* line 138 uses the ndarray l as a dict key: TypeError (unhashable)
    THEN Raised("TypeError")
    ELSE [raised |-> FALSE,
          kind |-> IF SeqMin(ExColumn(d, col)) >= 0 THEN "log_cmap"
                   ELSE "linear_cmap",
          field |-> col,
          low |-> SeqMin(ExColumn(d, col)),
          high |-> SeqMax(ExColumn(d, col))]

\* the one data source of the PCA plots (lines 431-435)
PcaSource == "p_pca_source"

\* lines 172-223; the glyph reads the shared source p_pca_source
plot_pca(d, ft) ==
    LET m == create_cmap(d, ft)
    IN  IF m.raised THEN m
        ELSE [raised |-> FALSE, kind |-> "pca",
              title |-> <<"PCA with Color Map on ", ft>>,
              fill_color |-> [m EXCEPT !.field = "y"],
              legend_field |-> "label",
              source |-> PcaSource,
              color_bar |-> is_numeric_dtype(ft)]

\* df.loc[sel, ['PCA 1', 'PCA 2', col]].values flattened: the values of the
\* rows with the labels of the list sel (labels count from 0), in the order
\* of the list, from its i-th entry on
RECURSIVE Flat(_, _, _, _)
Flat(d, col, sel, i) ==
    IF i > Len(sel) THEN <<>>
    ELSE <<d[sel[i] + 1]["PCA 1"], d[sel[i] + 1]["PCA 2"],
           d[sel[i] + 1][col]>> \o Flat(d, col, sel, i + 1)
\* the labels of all rows, in the order of the table
AllLabels(d) == [i \in 1..Len(d) |-> i - 1]
\* whether the list sel holds the label l
InSel(sel, l) == \E k \in 1..Len(sel) : sel[k] = l
\* the lists selected.indices can hold: row labels, none of them twice, in
\* any order
Selections(d) ==
    {sel \in UNION {[1..n -> 0..(Len(d) - 1)] : n \in 0..Len(d)} :
        \A j, k \in 1..Len(sel) : j # k => sel[j] # sel[k]}

\* np.histogram(a) with the default bins=10 and range=None, in exact
\* arithmetic: the range is (0,1) for no data and is widened by 0.5 on each
\* side when all values are equal; the edges are in units of 1/(2*NBins)
HistRange(vals) ==
    IF vals = <<>> THEN [lo2 |-> 0, hi2 |-> 2]
    ELSE IF SeqMin(vals) = SeqMax(vals)
         THEN [lo2 |-> 2 * SeqMin(vals) - 1, hi2 |-> 2 * SeqMax(vals) + 1]
         ELSE [lo2 |-> 2 * SeqMin(vals), hi2 |-> 2 * SeqMax(vals)]
BinOf(v, rg) ==
    LET k == ((2 * v - rg.lo2) * NBins) \div (rg.hi2 - rg.lo2)
    IN  IF k >= NBins THEN NBins - 1 ELSE k
np_histogram(vals) ==
    LET rg == HistRange(vals)
    IN  [counts |-> [b \in 1..NBins |->
                        Cardinality({j \in 1..Len(vals) :
                                        BinOf(vals[j], rg) = b - 1})],
         edges |-> [e \in 1..(NBins + 1) |->
                        NBins * rg.lo2 + (e - 1) * (rg.hi2 - rg.lo2)]]

\* draw_hist with the 'selected' series binned from the whole table
draw_hist_selected_from_all(d, col, sel) ==
    LET all == np_histogram(Flat(d, col, AllLabels(d), 1))
    IN  [raised |-> FALSE, kind |-> "hist",
         title |-> <<"Histogram of ", col>>,
         top |-> all.counts,
         top_s |-> all.counts,
         left |-> SubSeq(all.edges, 1, NBins),
         right |-> SubSeq(all.edges, 2, NBins + 1)]

\* lines 235-306
draw_hist(d, col, sel) ==
    LET all == np_histogram(Flat(d, col, AllLabels(d), 1))
        s == np_histogram(Flat(d, col, sel, 1))
    IN  [raised |-> FALSE, kind |-> "hist",
         title |-> <<"Histogram of ", col>>,
         top |-> all.counts,
         top_s |-> s.counts,
         left |-> SubSeq(all.edges, 1, NBins),
         right |-> SubSeq(all.edges, 2, NBins + 1)]

\* number of entries of vals equal to c
CountOf(vals, c) == Cardinality({j \in 1..Len(vals) : vals[j] = c})

\* the distinct entries of vals, in the order of their first appearance
RECURSIVE Distinct(_, _)
Distinct(vals, j) ==
    IF j > Len(vals) THEN <<>>
    ELSE IF \E h \in 1..(j - 1) : vals[h] = vals[j] THEN Distinct(vals, j + 1)
         ELSE <<vals[j]>> \o Distinct(vals, j + 1)

\* line 321/323, Series.value_counts().index: the categories by descending
\* count (equal counts in the order of first appearance)
RECURSIVE ByCount(_, _)
ByCount(cats, vals) ==
    IF cats = <<>> THEN <<>>
    ELSE LET best == CHOOSE k \in 1..Len(cats) :
                        /\ \A h \in 1..Len(cats) :
                              CountOf(vals, cats[h]) <= CountOf(vals, cats[k])
                        /\ \A h \in 1..(k - 1) :
                              CountOf(vals, cats[h]) < CountOf(vals, cats[k])
         IN  <<cats[best]>> \o
             ByCount(SubSeq(cats, 1, best - 1) \o
                     SubSeq(cats, best + 1, Len(cats)), vals)

\* line 329, `c in dis_s.index`: dis_s counts the rows of the three-column
\* frame s, so its index holds the tuples (PCA 1, PCA 2, col) and a scalar
\* key is looked up in the first level, the 'PCA 1' values of the selection;
\* a category of an object column is a string and equals none of them
KeyInFirstLevel(d, col, sel, c) ==
    /\ is_numeric_dtype(col)
    /\ \E i \in 1..Len(d) : InSel(sel, i - 1) /\ d[i]["PCA 1"] = c

\* lines 317-332: the categories and the two count lists of the bar chart
BarCounts(d, col, sel) ==
    LET vals == ExColumn(d, col)
        cat == ByCount(Distinct(vals, 1), vals)
    IN  [categories |-> cat,
         count_all |-> [k \in 1..Len(cat) |-> CountOf(vals, cat[k])],
         count_sel |-> [k \in 1..Len(cat) |->
                          IF KeyInFirstLevel(d, col, sel, cat[k])
                          THEN Cardinality({i \in 1..Len(d) :
                                  /\ InSel(sel, i - 1)
                                  /\ d[i]["PCA 1"] = cat[k]})
                          ELSE 0]]

\* lines 315-397: the call of create_cmap at line 336 raises for every
\* categorical column, before the data source of the bars is built
draw_bar_chart(d, col, sel) == create_cmap(d, col)

\* lines 404-411
draw_subplot(d, ft, sel) ==
    IF is_numeric_dtype(ft) THEN draw_hist(d, ft, sel)
    ELSE draw_bar_chart(d, ft, sel)

(***************************************************************************)
(* The top-level code of the explorer: load, pca, clustering, layout.      *)
(***************************************************************************)
\* number of states of numpy's global random generator the model tells apart
RngStates == 2
\* the state np.random.seed(0) puts the generator in
Seed0 == 0
\* the default of clustering's parameter n_clusters
NClusters == 2

\* the columns of pca_data as read_csv returns it (line 53)
LoadedCols == {"Country", "Industry", "Company", "Symbol", "Market Cap",
               "Mean Recommendation"}
LoadedTables ==
    { [i \in 1..ExRows |-> [c \in LoadedCols |-> t[i][c]]] : t \in ExTables }

\* the profile a loaded row was drawn from: the projection and the cluster
\* are functions of the features of the row
ProfileOf(r) ==
    CHOOSE pr \in ExProfiles :
        /\ pr.country = r["Country"] /\ pr.industry = r["Industry"]
        /\ pr.rec = r["Mean Recommendation"]

\* d[col] = vals: the frame d itself gets (or overwrites) the column
AddColumn(d, col, vals) ==
    [i \in 1..Len(d) |->
        [c \in (DOMAIN d[i]) \cup {col} |->
            IF c = col THEN vals[i] ELSE d[i][c]]]

\* lines 62-78: the frame passed in is returned with two more columns
pca(d) ==
    AddColumn(AddColumn(d, "PCA 1", [i \in 1..Len(d) |-> ProfileOf(d[i]).p1]),
              "PCA 2", [i \in 1..Len(d) |-> ProfileOf(d[i]).p2])

\* lines 94-95, MiniBatchKMeans(...).fit(X_pca).labels_ : the library draws
\* its initial centres from the global generator (random_state=None); the
\* partition is that of the profiles, the numbering of the clusters is the
\* one of the profiles when the generator starts from Seed0 and is rotated
\* for another starting state
KMeansLabels(d, n_clusters, rng) ==
    [i \in 1..Len(d) |->
        ((IF ProfileOf(d[i]).cluster = "1" THEN 1 ELSE 0) + (rng - Seed0))
            % n_clusters]
\* the generator after the fit has drawn from it
RngAfterFit(rng) == (rng + 1) % RngStates

\* a clustering without line 93: the generator is used in the state found
clustering_unseeded(d, n_clusters, rng) ==
    LET labels == KMeansLabels(d, n_clusters, rng)
    IN  [df |-> AddColumn(d, "Cluster",
                          [i \in 1..Len(d) |-> Digit(labels[i])]),
         rng |-> RngAfterFit(rng)]

\* lines 89-101: the frame with the column 'Cluster' (labels as strings)
\* and the generator state the call leaves behind
clustering(d, n_clusters, rng) ==
    LET seeded == Seed0
        labels == KMeansLabels(d, n_clusters, seeded)
    IN  [df |-> AddColumn(d, "Cluster",
                          [i \in 1..Len(d) |-> Digit(labels[i])]),
         rng |-> RngAfterFit(seeded)]

\* line 53 has run: df stands for the one frame object that the names
\* pca_data and (from line 417) df are bound to; nothing is built yet
ExLoaded ==
    /\ df \in LoadedTables
    /\ ex_stage = "loaded"
    /\ np_random \in 0..(RngStates - 1)
    /\ select_col_pca_value = InitPcaFt
    /\ sub_ft_selected = InitSubFt
    /\ points_selected = <<>>
    /\ source_label = <<>> /\ slot_pca = <<>> /\ slot_sub = <<>>
    /\ ex_error = NoError /\ lasso_subs = 0

\* line 417, the inner call pca(pca_data)
RunPca ==
    /\ ex_stage = "loaded"
    /\ df' = pca(df)
    /\ ex_stage' = "projected"
    /\ UNCHANGED <<select_col_pca_value, sub_ft_selected, points_selected,
                   source_label, slot_pca, slot_sub, ex_error, np_random,
                   lasso_subs>>
    /\ UNCHANGED <<mapVars, in_flight>>

\* line 417, the outer call clustering(...)
RunClustering ==
    /\ ex_stage = "projected"
    /\ LET r == clustering(df, NClusters, np_random)
       IN  df' = r.df /\ np_random' = r.rng
    /\ ex_stage' = "clustered"
    /\ UNCHANGED <<select_col_pca_value, sub_ft_selected, points_selected,
                   source_label, slot_pca, slot_sub, ex_error, lasso_subs>>
    /\ UNCHANGED <<mapVars, in_flight>>

\* lines 419-540: the 'label' column, the data source, the plots, the layout
BuildLayout ==
    /\ ex_stage = "clustered"
    /\ df' = AddColumn(df, "label", ExColumn(df, InitPcaFt))
    /\ source_label' = [kind |-> "column", values |-> ExColumn(df', "label")]
    /\ slot_pca' = plot_pca(df', InitPcaFt)
    /\ slot_sub' = draw_subplot(df', InitSubFt, <<>>)
    /\ lasso_subs' = lasso_subs + 1
    /\ ex_stage' = "serving"
    /\ UNCHANGED <<select_col_pca_value, sub_ft_selected, points_selected,
                   ex_error, np_random>>
    /\ UNCHANGED <<mapVars, in_flight>>

\* state after the script has run (lines 417-540)
ExInit ==
    /\ df \in ExTables
    /\ ex_stage = "serving"
    /\ np_random = RngAfterFit(Seed0)
    /\ lasso_subs = 1
    /\ select_col_pca_value = InitPcaFt
    /\ sub_ft_selected = InitSubFt
    /\ points_selected = <<>>
    /\ source_label = [kind |-> "column", values |-> ExColumn(df, "label")]
    /\ slot_pca = plot_pca(df, InitPcaFt)
    /\ slot_sub = draw_subplot(df, InitSubFt, <<>>)
    /\ ex_error = NoError

\* an update_pca_col that writes the feature into the table's 'label' column
update_pca_col_writes_df(new) ==
    /\ select_col_pca_value' = new
    /\ df' = AddColumn(df, "label", ExColumn(df, new))
    /\ source_label' = [kind |-> "scalar", values |-> new]
    /\ ex_error' = "ValueError"
    /\ UNCHANGED <<sub_ft_selected, points_selected, slot_pca, slot_sub,
                   lasso_subs>>

\* lines 502-505; the widget has set select_col_pca.value to new.
\* Line 503 assigns a string as the column 'label' of p_pca_source.data: the
\* column dict stores it and then validates the dict against Seq(Any), a
\* string is no sequence, and ValueError is raised: lines 504-505 (plot_pca,
\* the assignment of the layout slot) never run
update_pca_col(new) ==
    /\ select_col_pca_value' = new
    /\ source_label' = [kind |-> "scalar", values |-> new]
    /\ ex_error' = "ValueError"
    /\ UNCHANGED <<df, sub_ft_selected, points_selected, slot_pca, slot_sub,
                   lasso_subs>>

\* lines 513-516
update_sub_col(new) ==
    /\ sub_ft_selected' = new
    /\ LET p == draw_subplot(df, new, points_selected)
       IN  IF p.raised
           THEN ex_error' = p.exc /\ UNCHANGED slot_sub
           ELSE slot_sub' = p /\ UNCHANGED ex_error
    /\ UNCHANGED <<df, select_col_pca_value, points_selected, source_label,
                   slot_pca, lasso_subs>>

\* lines 531-534
lasso_update(new) ==
    /\ points_selected' = new
    /\ LET p == draw_subplot(df, sub_ft_selected, new)
       IN  IF p.raised
           THEN ex_error' = p.exc /\ UNCHANGED slot_sub
           ELSE slot_sub' = p /\ UNCHANGED ex_error
    /\ UNCHANGED <<df, select_col_pca_value, sub_ft_selected, source_label,
                   slot_pca, lasso_subs>>

\* events of the host runtime: on_change fires when the value has changed
SelectPca ==
    /\ ex_stage = "serving"
    /\ \E new \in PcaOptions \ {select_col_pca_value} : update_pca_col(new)
    /\ UNCHANGED <<mapVars, in_flight, ex_stage, np_random>>
SelectSub ==
    /\ ex_stage = "serving"
    /\ \E new \in SubOptions \ {sub_ft_selected} : update_sub_col(new)
    /\ UNCHANGED <<mapVars, in_flight, ex_stage, np_random>>
\* the lasso tool of the displayed plot writes the selection to the source
\* of its glyph; the change of the indices, a list, is dispatched to the
\* callbacks registered on that source, also when the new list holds the
\* labels of the old one in another order (a callback registered more than
\* once would be invoked as often, with the same arguments)
Lasso ==
    /\ ex_stage = "serving"
    /\ slot_pca.source = PcaSource /\ lasso_subs >= 1
    /\ \E new \in Selections(df) \ {points_selected} :
            lasso_update(new)
    /\ UNCHANGED <<mapVars, in_flight, ex_stage, np_random>>

(***************************************************************************)
(* The two applications are separate server scripts: each specification    *)
(* runs one of them, the other one is not loaded.                          *)
(***************************************************************************)
MapOff ==
    /\ us_company_map = <<>> /\ year = InitYear /\ city = InitCity
    /\ market_cap_lower = InitLower /\ main_df = <<>> /\ main_data = <<>>
    /\ sub_data = <<>> /\ sub_title = <<>> /\ label_text = <<>>
    /\ btn_label = PlayLabel /\ callback = None /\ timers = {}
    /\ map_error = FALSE /\ in_flight = <<>>
ExOff ==
    /\ df = <<>> /\ select_col_pca_value = InitPcaFt
    /\ sub_ft_selected = InitSubFt /\ points_selected = <<>>
    /\ source_label = <<>> /\ slot_pca = <<>> /\ slot_sub = <<>>
    /\ ex_error = NoError /\ ex_stage = "off" /\ np_random = Seed0
    /\ lasso_subs = 0

\* the animated map app
Init == MapInit /\ ExOff
Next == Tap \/ Slide \/ Click \/ Tick
Spec == Init /\ [][Next]_vars

\* the map app with the timer of the event loop: a periodic callback that
\* stays registered is invoked again and again (every 200 ms, line 387);
\* the companies of the base tables differ in their city only
LiveInit ==
    /\ Init
    /\ \A i \in 1..Len(us_company_map) :
            us_company_map[i].MarketCap[FirstYear] = 50
LiveSpec == LiveInit /\ [][Next]_vars /\ WF_vars(Tick)

\* the map app with its handlers run statement by statement
SerialNext ==
    \/ TapEvent \/ SlideEvent \/ ClickEvent \/ TickEvent
    \/ Step \/ Return
SerialSpec == Init /\ [][SerialNext]_vars

\* the dimension-reduction explorer
ExSpecInit == ExInit /\ MapOff
ExSpecNext == SelectSub \/ Lasso \/ SelectPca
ExSpec == ExSpecInit /\ [][ExSpecNext]_vars

\* either application, from the moment its table has been read
MapEvents == main_df # <<>> /\ Next
AllSpecInit == (ExLoaded /\ MapOff) \/ (MapLoaded /\ ExOff)
AllSpecNext ==
    \/ RunPca \/ RunClustering \/ BuildLayout
    \/ SelectSub \/ Lasso \/ SelectPca
    \/ MapStartup \/ MapEvents
AllSpec == AllSpecInit /\ [][AllSpecNext]_vars

(***************************************************************************)
(* Properties of the animated map app (checked under Spec).                *)
(***************************************************************************)

\* C1: at most one periodic timer for update_year is registered at any
\* time; a click never leaves two timers registered.
C1_AtMostOneTimer == Cardinality(timers) <= 1
\* the animation has been started, stopped and started again
C1_Witness == btn_label = PauseLabel /\ callback # None /\ callback # 1
                /\ timers = {callback}

\* C2: while the animation is stopped (the stop command has been handled,
\* the button shows Play) no step advances the year: the year, the year
\* label, the title and both tables stay those of the same year.
C2_NoTickAfterStop ==
    [][btn_label = PlayLabel =>
        /\ year' = year
        /\ label_text' = Str(year)
        /\ sub_title' = TitleText(city', year)
        /\ main_data' = create_df(year, city', market_cap_lower', TRUE)
        /\ sub_data' = create_df(year, city', market_cap_lower', FALSE)]_vars
\* a stop has been handled after the year had advanced
C2_Witness == btn_label = PlayLabel /\ callback # None /\ year # InitYear
                /\ timers = {}

\* C3: the animation control starts STOPPED without a timer; a click in
\* STOPPED registers one timer and enters RUNNING, a click in RUNNING
\* removes that timer and enters STOPPED; the button shows Pause exactly
\* when a timer is registered, the registered timer is the one the handle
\* names, and no stop fails on a handle that is not registered.
C3_Inv ==
    /\ btn_label = PauseLabel <=> timers # {}
    /\ btn_label = PauseLabel => callback # None /\ timers = {callback}
    /\ ~map_error
C3_Step ==
    /\ (btn_label = PlayLabel /\ btn_label' = PauseLabel)
            => timers = {} /\ timers' = {callback'} /\ callback' # None
    /\ (btn_label = PauseLabel /\ btn_label' = PlayLabel)
            => timers = {callback} /\ timers' = {}
    /\ timers' # timers => btn_label' # btn_label
C3_AnimationStateMachine ==
    /\ btn_label = PlayLabel /\ timers = {} /\ callback = None
    /\ []C3_Inv
    /\ [][C3_Step]_vars
\* STOPPED again after a run: the handle is stale, no timer is left
C3_Witness == btn_label = PlayLabel /\ callback # None /\ timers = {}
                /\ ~map_error

\* C4: a period advance maps 2022 to 2019 and every earlier year y to y+1;
\* the year is within 2019..2022 in every reachable state.
C4_YearWraps ==
    /\ [](year \in 2019..2022)
    /\ [][year' # year => year' = IF year = 2022 THEN 2019 ELSE year + 1]_vars
\* the year has wrapped from 2022 to 2019 and advanced to 2020
C4_Witness == year = 2020 /\ label_text = <<"2", "0", "2", "0">>

\* C5: after every handler the main table, the sub table, the title of the
\* sub-view and the year label are those of the current year, city and
\* lower bound.
C5_ViewsConsistent ==
    /\ main_data = create_df(year, city, market_cap_lower, TRUE)
    /\ sub_data = create_df(year, city, market_cap_lower, FALSE)
    /\ sub_title = <<"Tech Companies in ", city, " Year ">> \o Str(year)
    /\ label_text = Str(year)
\* a tap, a slider change and a tick have all been handled
C5_Witness == city # InitCity /\ market_cap_lower # InitLower
                /\ year # InitYear /\ sub_data # <<>>

\* C13: after a tap that selects city A and a later tap that selects city B,
\* whatever ticks and slider changes lie between, the session's city is B,
\* the sub-view title names B and the current year, and the sub-view table
\* holds only rows of city B: nothing of A remains in the sub-view.
C13_SubViewOfCity ==
    /\ sub_title = <<"Tech Companies in ", city, " Year ">> \o Str(year)
    /\ \A i \in 1..Len(sub_data) : sub_data[i].City = city
C13_TapReplaces ==
    city' # city =>
        /\ \E k \in 1..Len(main_data) : main_data[k].City = city'
        /\ sub_title'[2] = city' /\ \A j \in 1..Len(sub_title') :
                                        sub_title'[j] # city
        /\ SubSeq(sub_title', 4, Len(sub_title')) = Str(year')
        /\ \A i \in 1..Len(sub_data') :
                sub_data'[i].City = city' /\ sub_data'[i].City # city
        /\ year' = year /\ market_cap_lower' = market_cap_lower
C13_SecondTapWins == []C13_SubViewOfCity /\ [][C13_TapReplaces]_vars
C13_Witness ==
    /\ city # InitCity /\ year # InitYear /\ market_cap_lower # InitLower
    /\ \E i \in 1..Len(us_company_map) : us_company_map[i].City = InitCity
    /\ sub_title[2] = city
    /\ Len(sub_data) = 1 /\ sub_data[1].City = city
    /\ sub_data[1].Symbol # SymNaN

\* C15: create_df is a function of the base table and its arguments alone:
\* a call made after any handler has run (hence after any number of earlier
\* calls and whatever the other fields and views hold) returns the table
\* that the call with the same arguments returned before it; the arguments
\* compared are the year, city and bound in use before the step, for the
\* main table and for the sub-view table.
C15_SameArgsSameTable ==
    [][\A yr \in {year}, c \in {city}, lower \in {market_cap_lower},
          m \in BOOLEAN :
            create_df_body(us_company_map', yr, c, lower, m)
                = create_df(yr, c, lower, m)]_vars
C15_Witness ==
    /\ market_cap_lower = 100 /\ year = 2020 /\ city # InitCity
    /\ \E i \in 1..Len(sub_data) : sub_data[i].Symbol = SymNaN
    /\ \E k \in 1..Len(main_data) : main_data[k].Symbol = 0
    /\ create_df(2019, InitCity, 0, FALSE) # <<>>
    /\ \A i \in 1..Len(create_df(year, city, 0, FALSE)) :
            create_df(year, city, 0, FALSE)[i].Symbol # SymNaN

\* the sum of f over the set S
RECURSIVE C17_SumOver(_, _)
C17_SumOver(S, f) ==
    IF S = {} THEN 0
    ELSE LET e == CHOOSE e \in S : TRUE IN f[e] + C17_SumOver(S \ {e}, f)
\* C17: for the year and threshold in use the main table has exactly one row
\* per city of the base table and none else; the row's Market Cap and
\* Employees are the sums over the city's rows (masked and missing values
\* contributing nothing), its x and y are the means of the coordinates over
\* all rows of the city, and its count is the number of the city's rows
\* that are not masked.
C17_OneRowPerCity ==
    LET n == Len(us_company_map)
        cap == [i \in 1..n |-> us_company_map[i].MarketCap[year]]
        emp == [i \in 1..n |-> us_company_map[i].Employees[year]]
        masked == {i \in 1..n : cap[i] # NaN /\ cap[i] < market_cap_lower}
        kept(col) == [i \in 1..n |->
                        IF i \in masked \/ col[i] = NaN THEN 0 ELSE col[i]]
        present == {c \in Cities : \E i \in 1..n : us_company_map[i].City = c}
    IN  /\ Len(main_data) = Cardinality(present)
        /\ \A c \in present :
            LET of == {i \in 1..n : us_company_map[i].City = c}
                ks == {k \in 1..Len(main_data) : main_data[k].City = c}
            IN  /\ Cardinality(ks) = 1
                /\ \A k \in ks :
                    /\ main_data[k].MarketCap = C17_SumOver(of, kept(cap))
                    /\ main_data[k].Employees = C17_SumOver(of, kept(emp))
                    /\ main_data[k].x.den = Cardinality(of)
                    /\ main_data[k].x.num =
                        C17_SumOver(of, [i \in 1..n |-> us_company_map[i].x])
                    /\ main_data[k].y.den = Cardinality(of)
                    /\ main_data[k].y.num =
                        C17_SumOver(of, [i \in 1..n |-> us_company_map[i].y])
                    /\ main_data[k].Symbol = Cardinality(of \ masked)
\* a city with two companies, one of them masked, after slider and ticks
C17_Witness ==
    /\ market_cap_lower > InitLower /\ year # InitYear
    /\ \E k \in 1..Len(main_data) :
        /\ main_data[k].x.den = 2 /\ main_data[k].Symbol = 1
        /\ main_data[k].MarketCap > 0

\* C18: in every reachable state the threshold market_cap_lower lies within
\* the minimum and the maximum of the market-cap column.
C18_ThresholdInRange ==
    markt_min <= market_cap_lower /\ market_cap_lower <= markt_max

\* C22: for every year and every threshold the main table of create_df has
\* the cities of the startup table main_df in the same order (a city whose
\* companies are all masked keeps its row), so the index that tap_update
\* resolves against main_df names the city that the displayed main table
\* shows at that index.
C22_SameCityOrder ==
    /\ Column(main_data, "City") = Column(main_df, "City")
    /\ \A yr \in Years, lower \in SliderStops :
            Column(create_df(yr, city, lower, TRUE), "City")
                = Column(main_df, "City")
    /\ \A sel \in TapSelections :
            sel # <<>> =>
                main_df[sel[1] + 1].City = main_data[sel[1] + 1].City
\* a city without an unmasked company is displayed and has been tapped
C22_Witness ==
    /\ market_cap_lower > InitLower /\ year # InitYear
    /\ \E k \in 2..Len(main_data) :
        /\ main_data[k].Symbol = 0 /\ main_data[k].City = city
        /\ main_df[k].Symbol > 0
    /\ \A i \in 1..Len(sub_data) : sub_data[i].Symbol = SymNaN

\* C25: if from some point on the animation is running and no stop arrives,
\* then, the timer being fair, every year of 2019..2022 is displayed again
\* and again; the year changes by nothing but an advance to its successor
\* in the cycle 2019, 2020, 2021, 2022, 2019, ..., made while a timer is
\* registered: taps and slider changes in between leave the year alone.
C25_Advance ==
    \A y \in Years :
        (<>[](btn_label = PauseLabel)) => []<>(year = y /\ label_text = Str(y))
C25_OnlyTicksAdvance ==
    year' # year =>
        /\ timers # {}
        /\ year' = (IF year = 2022 THEN 2019 ELSE year + 1)
        /\ UNCHANGED <<city, market_cap_lower, btn_label, callback, timers>>
C25_YearsCycle == C25_Advance /\ [][C25_OnlyTicksAdvance]_vars
\* the animation runs, has wrapped around, after a tap and a slider change
C25_Witness ==
    /\ btn_label = PauseLabel /\ callback \in timers
    /\ year = 2019 /\ label_text = <<"2", "0", "1", "9">>
    /\ city # InitCity /\ market_cap_lower = 100

\* C26: every step of the map app changes at most one part of the session
\* state: the year (a timer firing, which leaves city, bound, button, handle
\* and timers alone), the bound (a slider change, which also leaves the year
\* label and the subplot title alone), the city (a tap, which also leaves
\* the main table and the year label alone), or the running flag with the
\* timer handle (a click, which leaves year, city, bound and every view
\* alone, so that pausing and resuming neither resets nor advances the
\* year); a step that changes no part of the session state, as a tap with an
\* empty selection, changes no view either.
C26_YearChanges == year' # year
C26_BoundChanges == market_cap_lower' # market_cap_lower
C26_CityChanges == city' # city
C26_RunningChanges ==
    <<btn_label, callback, timers>>' # <<btn_label, callback, timers>>
C26_Views == <<main_df, main_data, sub_data, sub_title, label_text>>
C26_Step ==
    /\ C26_YearChanges =>
            UNCHANGED <<city, market_cap_lower, btn_label, callback, timers>>
    /\ C26_BoundChanges =>
            UNCHANGED <<year, city, btn_label, callback, timers,
                        label_text, sub_title>>
    /\ C26_CityChanges =>
            UNCHANGED <<year, market_cap_lower, btn_label, callback, timers,
                        main_data, label_text>>
    /\ C26_RunningChanges =>
            UNCHANGED <<year, city, market_cap_lower, C26_Views>>
    /\ ~(C26_YearChanges \/ C26_BoundChanges \/ C26_CityChanges
            \/ C26_RunningChanges)
            => UNCHANGED C26_Views
C26_OwnFieldOnly == [][C26_Step]_vars
\* paused again after a resume, the year advanced, a city tapped and the
\* bound moved in between
C26_Witness ==
    /\ btn_label = PlayLabel /\ timers = {} /\ callback = 2
    /\ year = 2020 /\ label_text = Str(2020)
    /\ city # InitCity /\ market_cap_lower = 50

\* C8: the filter step keeps every row in its position; Symbol, Market Cap
\* and Employees of a row are replaced by the missing-value marker if and
\* only if its Market Cap of the year is below the bound, the other rows
\* keep them; City, x and y are never masked.
C8_FilterMasksBelow ==
    LET f == FilterStep(us_company_map, year, market_cap_lower)
    IN  /\ Len(f) = Len(us_company_map)
        /\ \A i \in 1..Len(us_company_map) :
            LET b == us_company_map[i]
                cap == b.MarketCap[year]
                below == cap # NaN /\ cap < market_cap_lower
            IN  /\ f[i].City = b.City /\ f[i].x = b.x /\ f[i].y = b.y
                /\ below <=> f[i].Symbol = SymNaN
                /\ below => f[i].MarketCap = NaN /\ f[i].Employees = NaN
                /\ ~below => /\ f[i].Symbol = b.Symbol
                             /\ f[i].MarketCap = cap
                             /\ f[i].Employees = b.Employees[year]
\* rows A: cap=50 and B: cap=150 in one city with the bound at 100: the sub
\* table shows A masked and B retained
C8_Witness ==
    /\ market_cap_lower = 100
    /\ Len(sub_data) = Len(us_company_map)
    /\ \E i, j \in 1..Len(sub_data) :
        /\ us_company_map[i].MarketCap[year] = 50
        /\ us_company_map[j].MarketCap[year] = 150
        /\ sub_data[i].Symbol = SymNaN /\ sub_data[i].MarketCap = NaN
        /\ sub_data[j].Symbol = us_company_map[j].Symbol
        /\ sub_data[j].MarketCap = 150

\* C9: every company that keeps its Symbol in the tables of the current
\* year has a Market Cap of that year strictly greater than the lower
\* bound, and the 'Number of Companies' of a city counts such companies
\* only.
C9_KeptOnlyAboveBound ==
    /\ \A i \in 1..Len(sub_data) :
        sub_data[i].Symbol # SymNaN =>
            sub_data[i].MarketCap # NaN
                /\ sub_data[i].MarketCap > market_cap_lower
    /\ \A k \in 1..Len(main_data) :
        main_data[k].Symbol =
            Cardinality({i \in 1..Len(us_company_map) :
                /\ us_company_map[i].City = main_data[k].City
                /\ us_company_map[i].MarketCap[year] # NaN
                /\ us_company_map[i].MarketCap[year] > market_cap_lower})

(***************************************************************************)
(* Properties of the explorer (checked under ExSpec).                      *)
(***************************************************************************)

\* C6: after every handler the subplot slot holds the subplot of the latest
\* sub_ft_selected and points_selected, and the PCA slot holds the plot of
\* the feature selected last in select_col_pca.
C6_SlotsHoldLatest ==
    /\ ~draw_subplot(df, sub_ft_selected, points_selected).raised
    /\ slot_sub = draw_subplot(df, sub_ft_selected, points_selected)
    /\ ~plot_pca(df, select_col_pca_value).raised
    /\ slot_pca = plot_pca(df, select_col_pca_value)

\* C7: no handler invocation raises, whatever option or selection it is
\* given.
C7_NoHandlerRaises == ex_error = NoError /\ ~map_error

\* C10: for a categorical feature the subplot is a bar chart whose data has
\* one 'selected' count per category of the table, in the order of the
\* 'all' counts, and the count is 0 when no selected row has the category.
C10_SelectedCountPerCategory ==
    is_object_dtype(sub_ft_selected) =>
        /\ slot_sub.kind = "bar"
        /\ Len(slot_sub.count_sel) = Len(slot_sub.categories)
        /\ Len(slot_sub.count_all) = Len(slot_sub.categories)
        /\ \A i \in 1..Len(df) :
            \E k \in 1..Len(slot_sub.categories) :
                slot_sub.categories[k] = df[i][sub_ft_selected]
        /\ \A k \in 1..Len(slot_sub.categories) :
            (\A i \in 1..Len(df) :
                InSel(points_selected, i - 1) =>
                    df[i][sub_ft_selected] # slot_sub.categories[k])
                => slot_sub.count_sel[k] = 0

\* C11: for a categorical feature and every selected set, the 'selected'
\* count that draw_bar_chart computes for a category is the number of
\* selected rows with that category, as the 'all' count is the number of
\* rows of the whole table with it.
C11_SelectedCountsRows ==
    is_object_dtype(sub_ft_selected) =>
        LET b == BarCounts(df, sub_ft_selected, points_selected)
        IN  \A k \in 1..Len(b.categories) :
              /\ b.count_all[k] =
                    Cardinality({i \in 1..Len(df) :
                        df[i][sub_ft_selected] = b.categories[k]})
              /\ b.count_sel[k] =
                    Cardinality({i \in 1..Len(df) :
                        /\ InSel(points_selected, i - 1)
                        /\ df[i][sub_ft_selected] = b.categories[k]})

\* C12: for a numeric feature and an empty selected set the subplot is a
\* histogram, produced without an error, whose 'selected' series has one
\* count per bin of the full histogram, every one of them zero.
C12_ZeroBars ==
    (is_numeric_dtype(sub_ft_selected) /\ points_selected = <<>>) =>
        /\ slot_sub.kind = "hist" /\ ~slot_sub.raised
        /\ Len(slot_sub.top_s) = Len(slot_sub.top)
        /\ Len(slot_sub.top) = Len(slot_sub.left)
        /\ \A b \in 1..Len(slot_sub.top_s) : slot_sub.top_s[b] = 0
C12_NoErrorStep ==
    (/\ is_numeric_dtype(sub_ft_selected')
     /\ points_selected' = <<>> /\ points_selected # <<>>)
        => (ex_error' = ex_error /\ slot_sub' # slot_sub)
C12_EmptySelectionZeroBars ==
    /\ ExInit => (ex_error = NoError /\ C12_ZeroBars)
    /\ []C12_ZeroBars
    /\ [][C12_NoErrorStep]_vars
C12_Witness ==
    /\ is_numeric_dtype(sub_ft_selected) /\ points_selected = <<>>
    /\ select_col_pca_value # InitPcaFt
    /\ slot_sub.kind = "hist"
    /\ \E b \in 1..Len(slot_sub.top) : slot_sub.top[b] > 1
    /\ \A b \in 1..Len(slot_sub.top_s) : slot_sub.top_s[b] = 0

\* C20: after update_pca_col has handled the selection of a feature, the
\* 'label' column of the PCA plot's data source holds that feature's value
\* of every row, and the PCA slot holds the plot coloured by the feature.
C20_LabelHoldsFeature ==
    select_col_pca_value # InitPcaFt =>
        /\ source_label.kind = "column"
        /\ source_label.values = ExColumn(df, select_col_pca_value)
        /\ Len(source_label.values) = Len(ExColumn(df, "PCA 1"))
        /\ ~plot_pca(df, select_col_pca_value).raised
        /\ slot_pca = plot_pca(df, select_col_pca_value)

\* C21: update_sub_col changes only the selected sub-feature: it leaves
\* points_selected alone and the subplot it installs is the one of the new
\* feature with the 'selected' series of the lasso selection made before;
\* lasso_update changes only points_selected and installs the subplot of the
\* sub-feature selected before it.
C21_SubColStep ==
    sub_ft_selected' # sub_ft_selected =>
        /\ UNCHANGED <<points_selected, df, select_col_pca_value,
                       source_label, slot_pca>>
        /\ ~draw_subplot(df, sub_ft_selected', points_selected).raised
        /\ slot_sub' = draw_subplot(df, sub_ft_selected', points_selected)
C21_LassoStep ==
    points_selected' # points_selected =>
        /\ UNCHANGED <<sub_ft_selected, df, select_col_pca_value,
                       source_label, slot_pca>>
        /\ ~draw_subplot(df, sub_ft_selected, points_selected').raised
        /\ slot_sub' = draw_subplot(df, sub_ft_selected, points_selected')
C21_SubplotHandlersFrame == [][C21_SubColStep /\ C21_LassoStep]_vars

\* C23: for a numeric feature and every selection, the histogram's
\* 'selected' series counts the selected values over the bin edges of the
\* values of all rows: in every bin it is at most the 'all' count, and the
\* 'selected' counts sum to the number of selected values.
C23_SelectedOverSameEdges ==
    (is_numeric_dtype(sub_ft_selected) /\ slot_sub.kind = "hist") =>
        LET allv == Flat(df, sub_ft_selected, AllLabels(df), 1)
            selv == Flat(df, sub_ft_selected, points_selected, 1)
            rg == HistRange(allv)
        IN  /\ \A b \in 1..NBins :
                slot_sub.top_s[b] =
                    Cardinality({j \in 1..Len(selv) :
                                    BinOf(selv[j], rg) = b - 1})
            /\ \A b \in 1..NBins : slot_sub.top_s[b] <= slot_sub.top[b]
            /\ C17_SumOver(1..NBins, slot_sub.top_s) = Len(selv)

\* C24: every run of update_pca_col replaces the PCA plot by the plot of
\* the feature selected, and the plot displayed after it draws from the data
\* source on which lasso_update was registered at startup, the registration
\* being there exactly once: a lasso selection on the displayed plot is
\* still handled, once.
C24_ReplacementStep ==
    select_col_pca_value' # select_col_pca_value =>
        /\ ~plot_pca(df, select_col_pca_value').raised
        /\ slot_pca' = plot_pca(df, select_col_pca_value')
        /\ slot_pca'.source = PcaSource
        /\ lasso_subs' = 1
        /\ ex_error' = ex_error
C14_OneInFlight ==
    /\ Len(in_flight) <= 1
    /\ \A i \in 1..Len(in_flight) :
        in_flight[i].pc = 1 =>
            /\ main_data = create_df(year, city, market_cap_lower, TRUE)
            /\ sub_data = create_df(year, city, market_cap_lower, FALSE)
            /\ sub_title = TitleText(city, year)
            /\ label_text = Str(year)
\* slider_update has written the bound and not yet replaced the main table,
\* while the animation runs and its timer can come due
C14_Witness ==
    /\ Len(in_flight) = 1
    /\ in_flight[1].h = "slider_update" /\ in_flight[1].pc = 2
    /\ market_cap_lower = in_flight[1].arg
    /\ main_data # create_df(year, city, market_cap_lower, TRUE)
    /\ timers # {} /\ btn_label = PauseLabel /\ year # InitYear

(***************************************************************************)
(* Properties of both applications from load on (checked under AllSpec).   *)
(***************************************************************************)

\* C16 as stated: the loaded table (us_company_map in the map app, pca_data
\* in the explorer) is never changed after load: no step adds, removes or
\* changes a column or a value of it.
C16_BaseNeverMutated ==
    [][us_company_map' = us_company_map /\ df' = df]_vars

\* a step keeps every loaded row and every value it holds
C16_KeepsValues(old, new) ==
    /\ Len(new) = Len(old)
    /\ \A i \in 1..Len(old) : \A c \in DOMAIN old[i] :
            c \in DOMAIN new[i] /\ new[i][c] = old[i][c]
\* C16, amended: once the top-level code of a script has run, no handler and
\* no derived-table computation changes the loaded table; while it runs,
\* columns are added to the loaded table in place (x and y in the map app;
\* 'PCA 1' and 'PCA 2' by pca, 'Cluster' by clustering and 'label' in the
\* explorer) but no row or column is removed and no loaded value changes.
C16_OnlyStartupAddsColumns ==
    [][/\ C16_KeepsValues(us_company_map, us_company_map')
       /\ C16_KeepsValues(df, df')
       /\ main_df # <<>> => us_company_map' = us_company_map
       /\ ex_stage = "serving" => df' = df]_vars
C16_Witness ==
    /\ ex_stage = "serving" /\ select_col_pca_value # InitPcaFt
    /\ sub_ft_selected # InitSubFt /\ points_selected # <<>>
    /\ \A i \in 1..Len(df) :
        {"PCA 1", "PCA 2", "Cluster", "label"} \subseteq DOMAIN df[i]

\* C19: clustering seeds the global generator with the same value before
\* the library draws from it, so the labels of a call are those of the
\* seeded run, whatever state the generator was in before the call: calls
\* over the same projection and the same number of clusters give the same
\* labels.
C19_SeededLabels ==
    ex_stage \in {"clustered", "serving"} =>
        \A i \in 1..Len(df) :
            df[i]["Cluster"] = Digit(KMeansLabels(df, NClusters, Seed0)[i])
C19_Witness ==
    /\ ex_stage = "clustered" /\ np_random = RngAfterFit(Seed0)
    /\ \E i, j \in 1..Len(df) : df[i]["Cluster"] # df[j]["Cluster"]

=============================================================================
